---------------------------- MODULE Spec2Model ----------------------------
(* chmi: the MCCS capability-string decoder (src/src/parse.rs), the         *)
(* capability queries (src/src/cap.rs), the capabilities cache              *)
(* (src/src/cache.rs) and the monitors (src/src/monitor.rs).                *)
(*                                                                          *)
(* A capability string is a sequence of characters; a character is a        *)
(* one-character string, and NUL stands for the byte 0x00.  Offsets into    *)
(* the string and the parser's cursor are 0-based as in the source.         *)
EXTENDS Integers, Sequences, FiniteSets, TLC

VARIABLES
    doc,        \* how the input string was composed (the declared content)
    s,          \* parse's argument: the capability string
    pos,        \* the lexer's offset into s
    span,       \* the span of the last lexer item
    tokens,     \* parse's token buffer
    index,      \* Parser::index
    commands,   \* parse_commands' local `commands`
    cur,        \* parse_command's locals `code` and `values`
    pc,         \* position inside parse / parse_commands / parse_command
    result,     \* parse's return value, once pc = "done"
    cap,        \* a Capabilities value under query
    hasSel,     \* what has_input_select returned
    inp,        \* what inputs returned
    earlier,    \* what an earlier call of parse returned, when parse is called twice
    conv,       \* an Input or a byte under conversion, and what it converted to
    hmonitors,  \* the display monitors EnumDisplayMonitors enumerates
    hm,         \* how many of them the callback has been called for
    monitors,   \* get_monitors' local `monitors`, then the Vec it returned
    rows,       \* the rows of the capabilities table, in rowid order
    open,       \* the physical-monitor handles obtained and not destroyed
    destroyed,  \* the handles DestroyPhysicalMonitor was called on, in call order
    run,        \* how many times get_monitors has been called
    call        \* the last call of a cache or Monitor method, and what it returned

parseVars == <<doc, s, pos, span, tokens, index, commands, cur, pc, result>>
capVars == <<cap, hasSel, inp>>
lexVars == <<doc, s, pos, span, tokens, index, commands, cur>>
monVars == <<hmonitors, hm, monitors, rows, open, destroyed, run, call>>
vars == <<doc, s, pos, span, tokens, index, commands, cur, pc, result, cap, hasSel, inp,
          earlier, conv, hmonitors, hm, monitors, rows, open, destroyed, run, call>>

---------------------------------------------------------------------------
(* Characters                                                               *)

NUL == "NUL"
Digits == {"0", "1", "2", "3", "4", "5", "6", "7", "8", "9"}
HexLetters == {"A", "B", "C", "D", "E", "F"}
Upper == {"A", "B", "C", "D", "E", "F", "G", "H", "I", "J", "K", "L", "M",
          "N", "O", "P", "Q", "R", "S", "T", "U", "V", "W", "X", "Y", "Z"}
Lower == {"a", "b", "c", "d", "e", "f", "g", "h", "i", "j", "k", "l", "m",
          "n", "o", "p", "q", "r", "s", "t", "u", "v", "w", "x", "y", "z"}

\* the Code rule matching every upper-case letter
HexClass_Wide == Digits \cup Upper
\* the class [0-9A-F] of the Code rule
HexClass == Digits \cup HexLetters
\* the class [a-zA-Z0-9_] of the Identifier rule
IdentClass == Lower \cup Upper \cup Digits \cup {"_"}

HexDigits == <<"0", "1", "2", "3", "4", "5", "6", "7",
               "8", "9", "A", "B", "C", "D", "E", "F">>
LowerHexDigits == <<"0", "1", "2", "3", "4", "5", "6", "7",
                    "8", "9", "a", "b", "c", "d", "e", "f">>
\* the digits u8::from_str_radix(_, 16) accepts, in either case
IsRadix16(c) == \E i \in 1..16 : HexDigits[i] = c \/ LowerHexDigits[i] = c
HexVal(c) == (CHOOSE i \in 1..16 : HexDigits[i] = c \/ LowerHexDigits[i] = c) - 1
\* u8::from_str_radix(slice, 16) on a two-character slice of such digits
from_str_radix(a, b) == 16 * HexVal(a) + HexVal(b)

---------------------------------------------------------------------------
(* Tokens and errors                                                        *)

Tok(k, v, t) == [kind |-> k, val |-> v, text |-> t]
LeftParen == Tok("LeftParen", 0, <<>>)
RightParen == Tok("RightParen", 0, <<>>)
Space == Tok("Space", 0, <<>>)
Vcp == Tok("Vcp", 0, <<>>)
Code(c) == Tok("Code", c, <<>>)
Identifier(t) == Tok("Identifier", 0, t)
Version == Tok("Version", 0, <<>>)
NoToken == Tok("none", 0, <<>>)

\* ParseError: field0 and field1 are the variant's positional fields
Error(k, f0, f1, t) == [kind |-> k, field0 |-> f0, field1 |-> f1, text |-> t]
InvalidToken(t) == Error("InvalidToken", NoToken, NoToken, t)
ExpectedError(f0, f1) == Error("Expected", f0, f1, <<>>)
ExpectedVcpCodeOrValue(f0) == Error("ExpectedVcpCodeOrValue", f0, NoToken, <<>>)
EndOfFile == Error("EndOfFile", NoToken, NoToken, <<>>)
NoError == Error("none", NoToken, NoToken, <<>>)

Command(c, v) == [code |-> c, values |-> v]
NoCommand == Command(0, <<>>)

Ok(v) == [ok |-> TRUE, value |-> v, err |-> NoError]
Err(e) == [ok |-> FALSE, value |-> <<>>, err |-> e]
Pending == [ok |-> FALSE, value |-> <<>>, err |-> NoError]

---------------------------------------------------------------------------
(* The lexer: the rules of Token, longest match first, then rule priority   *)

\* a lexer without the skip rule: NUL is an unrecognized character
SkipNul_None(str, p) == p

RECURSIVE SkipNul(_, _)
\* #[logos(skip "\x00")]: the offset of the first non-NUL character from p on
SkipNul(str, p) ==
    IF p < Len(str) /\ str[p + 1] = NUL THEN SkipNul(str, p + 1) ELSE p

RECURSIVE IdentRun(_, _)
\* [a-zA-Z0-9_]+ : the length of the run of identifier characters at offset p
IdentRun(str, p) ==
    IF p < Len(str) /\ str[p + 1] \in IdentClass
    THEN 1 + IdentRun(str, p + 1) ELSE 0

VcpLen(str, p) ==
    IF p + 3 <= Len(str) /\ str[p + 1] = "v" /\ str[p + 2] = "c" /\ str[p + 3] = "p"
    THEN 3 ELSE 0

CodeLen(str, p) ==
    IF p + 2 <= Len(str) /\ str[p + 1] \in HexClass /\ str[p + 2] \in HexClass
    THEN 2 ELSE 0

VersionLen(str, p) ==
    IF p + 3 <= Len(str) /\ str[p + 1] \in Digits /\ str[p + 2] = "."
       /\ str[p + 3] \in Digits
    THEN 3 ELSE 0

Max(a, b) == IF a >= b THEN a ELSE b

\* a lexer item: Ok(token) or Err, the span's end, and whether the rule's
\* callback panicked
Item(tok, end) == [ok |-> TRUE, panic |-> FALSE, tok |-> tok, end |-> end]
NoItem(end) == [ok |-> FALSE, panic |-> FALSE, tok |-> NoToken, end |-> end]
Panicked(end) == [ok |-> FALSE, panic |-> TRUE, tok |-> NoToken, end |-> end]
\* the callback of the Code rule: u8::from_str_radix(lex.slice(), 16).unwrap()
CodeItem(a, b, end) ==
    IF IsRadix16(a) /\ IsRadix16(b) THEN Item(Code(from_str_radix(a, b)), end)
    ELSE Panicked(end)

\* the lexer trying the vcp keyword before the longest match
LexAt_KeywordFirst(str, p) ==
    LET c == str[p + 1]
        v == VcpLen(str, p)
        h == CodeLen(str, p)
        i == IdentRun(str, p)
        r == VersionLen(str, p)
        longest == Max(Max(v, h), Max(i, r))
    IN  IF c = "(" THEN Item(LeftParen, p + 1)
        ELSE IF c = ")" THEN Item(RightParen, p + 1)
        ELSE IF c = " " THEN Item(Space, p + 1)
        ELSE IF longest = 0 THEN NoItem(p + 1)
        ELSE IF v > 0 THEN Item(Vcp, p + v)
        ELSE IF h = longest THEN CodeItem(str[p + 1], str[p + 2], p + h)
        ELSE IF r = longest THEN Item(Version, p + r)
        ELSE Item(Identifier(SubSeq(str, p + 1, p + i)), p + i)

\* One item of Token::lexer(s).spanned() at offset p (p < Len(str), str[p+1]
\* not NUL): the token or an error, and the span's end.
LexAt(str, p) ==
    LET c == str[p + 1]
        v == VcpLen(str, p)
        h == CodeLen(str, p)
        i == IdentRun(str, p)
        r == VersionLen(str, p)
        longest == Max(Max(v, h), Max(i, r))
    IN  IF c = "(" THEN Item(LeftParen, p + 1)
        ELSE IF c = ")" THEN Item(RightParen, p + 1)
        ELSE IF c = " " THEN Item(Space, p + 1)
        ELSE IF longest = 0 THEN NoItem(p + 1)
        ELSE IF v = longest THEN Item(Vcp, p + v)
        ELSE IF h = longest THEN CodeItem(str[p + 1], str[p + 2], p + h)
        ELSE IF r = longest THEN Item(Version, p + r)
        ELSE Item(Identifier(SubSeq(str, p + 1, p + i)), p + i)

---------------------------------------------------------------------------
(* Parser's cursor operations, on a token slice and an index                *)

\* Parser::check
check(toks, i, token) == i < Len(toks) /\ toks[i + 1] = token

\* next stepping past the end of the tokens when it returns EndOfFile
next_Overrun(toks, i) ==
    IF i < Len(toks)
    THEN [ok |-> TRUE, tok |-> toks[i + 1], err |-> NoError, index |-> i + 1]
    ELSE [ok |-> FALSE, tok |-> NoToken, err |-> EndOfFile, index |-> i + 1]

\* Parser::next: the token or EndOfFile, and the index afterwards
next(toks, i) ==
    IF i < Len(toks)
    THEN [ok |-> TRUE, tok |-> toks[i + 1], err |-> NoError, index |-> i + 1]
    ELSE [ok |-> FALSE, tok |-> NoToken, err |-> EndOfFile, index |-> i]

\* Parser::eat: whether the token was consumed, and the index afterwards
eat(toks, i, token) ==
    LET matches == check(toks, i, token)
    IN  [matches |-> matches, index |-> IF matches THEN i + 1 ELSE i]

\* Parser::expect
expect(toks, i, token) ==
    LET n == next(toks, i)
    IN  IF ~n.ok THEN [ok |-> FALSE, err |-> n.err, index |-> n.index]
        ELSE IF n.tok = token THEN [ok |-> TRUE, err |-> NoError, index |-> n.index]
        ELSE [ok |-> FALSE, err |-> ExpectedError(n.tok, token), index |-> n.index]

\* parse_code reporting a non-byte token through Expected, as expect does
parse_code_AsExpect(toks, i) ==
    LET e1 == eat(toks, i, Space)
        n == next(toks, e1.index)
    IN  IF ~n.ok THEN [ok |-> FALSE, code |-> 0, err |-> n.err, index |-> n.index]
        ELSE IF n.tok.kind = "Code"
             THEN [ok |-> TRUE, code |-> n.tok.val, err |-> NoError,
                   index |-> eat(toks, n.index, Space).index]
        ELSE [ok |-> FALSE, code |-> 0, err |-> ExpectedError(n.tok, Code(0)),
              index |-> n.index]

\* Parser::parse_code
parse_code(toks, i) ==
    LET e1 == eat(toks, i, Space)
        n == next(toks, e1.index)
    IN  IF ~n.ok THEN [ok |-> FALSE, code |-> 0, err |-> n.err, index |-> n.index]
        ELSE IF n.tok.kind = "Code"
             THEN [ok |-> TRUE, code |-> n.tok.val, err |-> NoError,
                   index |-> eat(toks, n.index, Space).index]
        ELSE [ok |-> FALSE, code |-> 0, err |-> ExpectedVcpCodeOrValue(n.tok),
              index |-> n.index]


---------------------------------------------------------------------------
(* parse, parse_commands and parse_command as steps                         *)

Fail(e) ==
    /\ result' = Err(e)
    /\ pc' = "done"

\* the lexer loop dropping an unrecognized character instead of returning
LexToken_SkipInvalid ==
    /\ pc = "lex"
    /\ SkipNul(s, pos) < Len(s)
    /\ LET p == SkipNul(s, pos)
           l == LexAt(s, p)
       IN  /\ span' = [start |-> p, end |-> l.end]
           /\ pos' = l.end
           /\ tokens' = IF l.ok THEN Append(tokens, l.tok) ELSE tokens
    /\ UNCHANGED <<doc, s, index, commands, cur, pc, result, capVars, earlier, conv, monVars>>

\* parse: one turn of `for (token, span) in Token::lexer(s).spanned()`
LexToken ==
    /\ pc = "lex"
    /\ SkipNul(s, pos) < Len(s)
    /\ LET p == SkipNul(s, pos)
           l == LexAt(s, p)
       IN  /\ span' = [start |-> p, end |-> l.end]
           /\ pos' = l.end
           /\ IF l.panic
              THEN /\ pc' = "panic"
                   /\ UNCHANGED <<tokens, result>>
              ELSE IF l.ok
              THEN /\ tokens' = Append(tokens, l.tok)
                   /\ UNCHANGED <<pc, result>>
              ELSE IF p <= l.end /\ l.end <= Len(s)
              THEN /\ Fail(InvalidToken(SubSeq(s, p + 1, l.end)))
                   /\ UNCHANGED tokens
              ELSE /\ pc' = "panic"
                   /\ UNCHANGED <<tokens, result>>
    /\ UNCHANGED <<doc, s, index, commands, cur, capVars, earlier, conv, monVars>>

\* a parser started on the tokens lexed so far when the lexer meets an
\* unrecognized character
LexEnd_Lazy ==
    /\ pc = "lex"
    /\ IF SkipNul(s, pos) >= Len(s) THEN TRUE ELSE ~LexAt(s, SkipNul(s, pos)).ok
    /\ pos' = SkipNul(s, pos)
    /\ index' = 0
    /\ pc' = "eat_until"
    /\ UNCHANGED <<doc, s, span, tokens, commands, cur, result, capVars, earlier, conv, monVars>>

\* parse: the lexer is exhausted; Parser::new(&tokens), parser.parse_commands()
LexEnd ==
    /\ pc = "lex"
    /\ SkipNul(s, pos) >= Len(s)
    /\ pos' = SkipNul(s, pos)
    /\ index' = 0
    /\ pc' = "eat_until"
    /\ UNCHANGED <<doc, s, span, tokens, commands, cur, result, capVars, earlier, conv, monVars>>

\* eat_until ending at the ')' that closes the group it is in: a shallow skip
EatUntil_Shallow ==
    /\ pc = "eat_until"
    /\ IF index < Len(tokens) /\ ~check(tokens, index, Vcp)
          /\ ~check(tokens, index, RightParen)
       THEN /\ index' = index + 1
            /\ UNCHANGED pc
       ELSE /\ pc' = "expect_vcp"
            /\ UNCHANGED index
    /\ UNCHANGED <<doc, s, pos, span, tokens, commands, cur, result, capVars, earlier, conv, monVars>>

\* Parser::eat_until(&Token::Vcp): one turn of its loop
EatUntil ==
    /\ pc = "eat_until"
    /\ IF index < Len(tokens) /\ ~check(tokens, index, Vcp)
       THEN /\ index' = index + 1
            /\ UNCHANGED pc
       ELSE /\ pc' = "expect_vcp"
            /\ UNCHANGED index
    /\ UNCHANGED <<doc, s, pos, span, tokens, commands, cur, result, capVars, earlier, conv, monVars>>

\* parse_commands returning no entries when no vcp keyword is left
ExpectVcp_AbsentIsEmpty ==
    /\ pc = "expect_vcp"
    /\ LET e == expect(tokens, index, Vcp)
       IN  /\ index' = e.index
           /\ IF e.ok THEN pc' = "expect_open" /\ UNCHANGED result
              ELSE IF e.err = EndOfFile THEN result' = Ok(<<>>) /\ pc' = "done"
              ELSE Fail(e.err)
    /\ UNCHANGED <<doc, s, pos, span, tokens, commands, cur, capVars, earlier, conv, monVars>>

\* parse_commands: self.expect(Token::Vcp)?
ExpectVcp ==
    /\ pc = "expect_vcp"
    /\ LET e == expect(tokens, index, Vcp)
       IN  /\ index' = e.index
           /\ IF e.ok THEN pc' = "expect_open" /\ UNCHANGED result
              ELSE Fail(e.err)
    /\ UNCHANGED <<doc, s, pos, span, tokens, commands, cur, capVars, earlier, conv, monVars>>

\* parse_commands taking the '(' after vcp as optional: eat, not expect
ExpectLeftParen_Optional ==
    /\ pc = "expect_open"
    /\ index' = eat(tokens, index, LeftParen).index
    /\ pc' = "commands"
    /\ commands' = <<>>
    /\ UNCHANGED <<doc, s, pos, span, tokens, cur, result, capVars, earlier, conv, monVars>>

\* parse_commands: self.expect(Token::LeftParen)?; let mut commands = Vec::new()
ExpectLeftParen ==
    /\ pc = "expect_open"
    /\ LET e == expect(tokens, index, LeftParen)
       IN  /\ index' = e.index
           /\ IF e.ok THEN pc' = "commands" /\ UNCHANGED result
              ELSE Fail(e.err)
    /\ commands' = <<>>
    /\ UNCHANGED <<doc, s, pos, span, tokens, cur, capVars, earlier, conv, monVars>>

\* parse_commands parsing a command before it looks for ')': a do-while
CommandsCheck_CommandFirst ==
    /\ pc = "commands"
    /\ pc' = IF commands = <<>> \/ ~check(tokens, index, RightParen)
             THEN "command" ELSE "commands_close"
    /\ UNCHANGED <<doc, s, pos, span, tokens, index, commands, cur, result, capVars, earlier, conv, monVars>>

\* parse_commands: while !self.check(&Token::RightParen)
CommandsCheck ==
    /\ pc = "commands"
    /\ pc' = IF ~check(tokens, index, RightParen) THEN "command" ELSE "commands_close"
    /\ UNCHANGED <<doc, s, pos, span, tokens, index, commands, cur, result, capVars, earlier, conv, monVars>>

\* parse_command: let code = self.parse_code()?; let mut values = Vec::new()
ParseCommandCode ==
    /\ pc = "command"
    /\ LET c == parse_code(tokens, index)
       IN  /\ index' = c.index
           /\ IF c.ok
              THEN /\ cur' = Command(c.code, <<>>)
                   /\ pc' = "command_open"
                   /\ UNCHANGED result
              ELSE /\ Fail(c.err)
                   /\ UNCHANGED cur
    /\ UNCHANGED <<doc, s, pos, span, tokens, commands, capVars, earlier, conv, monVars>>

\* parse_command: if self.eat(&Token::LeftParen); without a list the command
\* is returned and parse_commands pushes it
EatLeftParen ==
    /\ pc = "command_open"
    /\ LET e == eat(tokens, index, LeftParen)
       IN  /\ index' = e.index
           /\ IF e.matches
              THEN pc' = "values" /\ UNCHANGED commands
              ELSE pc' = "commands" /\ commands' = Append(commands, cur)
    /\ UNCHANGED <<doc, s, pos, span, tokens, cur, result, capVars, earlier, conv, monVars>>

\* a value loop whose body consumes nothing
ValuesCheck_Spin ==
    /\ pc = "values"
    /\ pc' = IF ~check(tokens, index, RightParen) THEN "values" ELSE "values_close"
    /\ UNCHANGED <<doc, s, pos, span, tokens, index, commands, cur, result, capVars, earlier, conv, monVars>>

\* parse_command: while !self.check(&Token::RightParen)
ValuesCheck ==
    /\ pc = "values"
    /\ pc' = IF ~check(tokens, index, RightParen) THEN "value" ELSE "values_close"
    /\ UNCHANGED <<doc, s, pos, span, tokens, index, commands, cur, result, capVars, earlier, conv, monVars>>

\* parse_command putting each value in front: values.insert(0, value)
ParseValue_Prepend ==
    /\ pc = "value"
    /\ LET c == parse_code(tokens, index)
       IN  /\ index' = c.index
           /\ IF c.ok
              THEN /\ cur' = Command(cur.code, <<c.code>> \o cur.values)
                   /\ pc' = "values"
                   /\ UNCHANGED result
              ELSE /\ Fail(c.err)
                   /\ UNCHANGED cur
    /\ UNCHANGED <<doc, s, pos, span, tokens, commands, capVars, earlier, conv, monVars>>

\* parse_command: let value = self.parse_code()?; values.push(value)
ParseValue ==
    /\ pc = "value"
    /\ LET c == parse_code(tokens, index)
       IN  /\ index' = c.index
           /\ IF c.ok
              THEN /\ cur' = Command(cur.code, Append(cur.values, c.code))
                   /\ pc' = "values"
                   /\ UNCHANGED result
              ELSE /\ Fail(c.err)
                   /\ UNCHANGED cur
    /\ UNCHANGED <<doc, s, pos, span, tokens, commands, capVars, earlier, conv, monVars>>

\* parse_command: self.expect(Token::RightParen)?; Ok(Command { code, values }),
\* pushed by parse_commands
ExpectValuesClose ==
    /\ pc = "values_close"
    /\ LET e == expect(tokens, index, RightParen)
       IN  /\ index' = e.index
           /\ IF e.ok
              THEN /\ commands' = Append(commands, cur)
                   /\ pc' = "commands"
                   /\ UNCHANGED result
              ELSE /\ Fail(e.err)
                   /\ UNCHANGED commands
    /\ UNCHANGED <<doc, s, pos, span, tokens, cur, capVars, earlier, conv, monVars>>

\* parse_commands going on to a later vcp group instead of returning
ExpectCommandsClose_Continue ==
    /\ pc = "commands_close"
    /\ LET e == expect(tokens, index, RightParen)
       IN  /\ index' = e.index
           /\ IF e.ok
              THEN IF \E k \in (e.index + 1)..Len(tokens) : tokens[k] = Vcp
                   THEN /\ pc' = "eat_until"
                        /\ UNCHANGED result
                   ELSE /\ result' = Ok(commands)
                        /\ pc' = "done"
              ELSE Fail(e.err)
    /\ UNCHANGED <<doc, s, pos, span, tokens, commands, cur, capVars, earlier, conv, monVars>>

\* parse_commands: self.expect(Token::RightParen)?; Ok(commands)
ExpectCommandsClose ==
    /\ pc = "commands_close"
    /\ LET e == expect(tokens, index, RightParen)
       IN  /\ index' = e.index
           /\ IF e.ok
              THEN /\ result' = Ok(commands)
                   /\ pc' = "done"
              ELSE Fail(e.err)
    /\ UNCHANGED <<doc, s, pos, span, tokens, commands, cur, capVars, earlier, conv, monVars>>

---------------------------------------------------------------------------
(* The inputs: capability strings composed from lexemes                     *)

\* bounds of the composed inputs: entries of a vcp group, values of a list,
\* entries of a string that carries a fault, groups before and after vcp
MaxEntries == 3
MaxValues == 2
MaxFaultEntries == 2
MaxPre == 1
MaxPost == 1

\* formats a byte the way capability strings spell it: two upper-case hex digits
Hex2(b) == <<HexDigits[(b \div 16) + 1], HexDigits[(b % 16) + 1]>>

Piece(l, r) == [lex |-> l, role |-> r]
SpacePiece == Piece(<<" ">>, "sp")

\* the flat groups that surround the vcp group in the test strings
PreGroup ==
    << <<Piece(<<"p", "r", "o", "t">>, "gid"), Piece(<<"(">>, "gopen"),
         Piece(<<"m", "o", "n", "i", "t", "o", "r">>, "garg"), Piece(<<")">>, "gclose")>>,
       <<Piece(<<"t", "y", "p", "e">>, "gid"), Piece(<<"(">>, "gopen"),
         Piece(<<"l", "c", "d">>, "garg"), Piece(<<")">>, "gclose")>> >>
PostGroup ==
    << <<Piece(<<"m", "c", "c", "s", "_", "v", "e", "r">>, "gid"), Piece(<<"(">>, "gopen"),
         Piece(<<"2", ".", "1">>, "garg"), Piece(<<")">>, "gclose")>>,
       <<Piece(<<"m", "s", "w", "h", "q", "l">>, "gid"), Piece(<<"(">>, "gopen"),
         Piece(<<"1">>, "garg"), Piece(<<")">>, "gclose")>> >>

RECURSIVE Groups(_, _)
Groups(table, n) == IF n = 0 THEN <<>> ELSE Groups(table, n - 1) \o table[n]

RECURSIVE ValuePieces(_)
\* the values of a list, one space between two values
ValuePieces(vs) ==
    IF vs = <<>> THEN <<>>
    ELSE IF Len(vs) = 1 THEN <<Piece(Hex2(vs[1]), "value")>>
    ELSE <<Piece(Hex2(vs[1]), "value"), SpacePiece>> \o ValuePieces(Tail(vs))

EntryPieces(e) ==
    <<Piece(Hex2(e.code), "code")>>
    \o (IF e.list
        THEN <<Piece(<<"(">>, "lopen")>> \o ValuePieces(e.values)
             \o <<Piece(<<")">>, "lclose")>>
        ELSE <<>>)

RECURSIVE EntriesPieces(_)
\* the entries of the vcp group, one space between two entries
EntriesPieces(es) ==
    IF es = <<>> THEN <<>>
    ELSE IF Len(es) = 1 THEN EntryPieces(es[1])
    ELSE EntryPieces(es[1]) \o <<SpacePiece>> \o EntriesPieces(Tail(es))

\* '(' group* [ 'vcp' '(' entry* ')' ] group* ')'
BasePieces(d) ==
    <<Piece(<<"(">>, "open")>>
    \o Groups(PreGroup, d.pre)
    \o (IF d.hasVcp
        THEN <<Piece(<<"v", "c", "p">>, "vcp"), Piece(<<"(">>, "vopen")>>
             \o EntriesPieces(d.entries) \o <<Piece(<<")">>, "vclose")>>
        ELSE <<>>)
    \o Groups(PostGroup, d.post)
    \o <<Piece(<<")">>, "close")>>

\* lexemes put in the place of another one
FaultLex(name) ==
    CASE name = "bad" -> <<"$">>
      [] name = "bad2" -> <<"#", "(", "$">>
      [] name = "ident" -> <<"m", "o", "n", "i", "t", "o", "r">>
      [] name = "vcp" -> <<"v", "c", "p">>
      [] name = "lparen" -> <<"(">>
      [] name = "rparen" -> <<")">>
      [] name = "byte" -> <<"0", "1">>
      [] name = "space" -> <<" ">>
      [] name = "version" -> <<"2", ".", "1">>
      [] name = "nulbyte" -> <<NUL, "0", "1">>
      [] name = "nested" -> <<"b", "(", "c", ")">>
      [] name = "space2" -> <<" ", " ">>
      [] name = "space3" -> <<" ", " ", " ">>
      [] name = "nul" -> <<NUL>>
      [] name = "nul2" -> <<NUL, NUL>>
      [] name = "vcpgroup" -> <<"v", "c", "p", "(", "0", "2", ")">>
FaultNames == {"bad", "bad2", "ident", "vcp", "lparen", "rparen", "byte", "space",
               "version", "nulbyte"}

NoFault == [kind |-> "none", at |-> 0, lex |-> "none"]
Cut(k) == [kind |-> "cut", at |-> k, lex |-> "none"]
Subst(k, name) == [kind |-> "subst", at |-> k, lex |-> name]
Insert(k, name) == [kind |-> "insert", at |-> k, lex |-> name]

\* the pieces of a composed string: cut after `at` pieces, with piece `at`
\* replaced, or with a lexeme put in before piece `at`
Pieces(d) ==
    LET b == BasePieces(d)
    IN  CASE d.fault.kind = "none" -> b
          [] d.fault.kind = "cut" -> SubSeq(b, 1, d.fault.at)
          [] d.fault.kind = "subst" ->
                [b EXCEPT ![d.fault.at] = Piece(FaultLex(d.fault.lex), b[d.fault.at].role)]
          [] d.fault.kind = "insert" ->
                SubSeq(b, 1, d.fault.at - 1) \o <<Piece(FaultLex(d.fault.lex), "ins")>>
                \o SubSeq(b, d.fault.at, Len(b))

RECURSIVE Concat(_)
Concat(ps) == IF ps = <<>> THEN <<>> ELSE ps[1].lex \o Concat(Tail(ps))

\* the offset of piece k in the string
Offset(ps, k) == Len(Concat(SubSeq(ps, 1, k - 1)))

\* strings of the tests of src/src/parse.rs
UN880 == <<
    "(", "p", "r", "o", "t", "(", "m", "o", "n", "i", "t", "o", "r", ")",
    "t", "y", "p", "e", "(", "l", "c", "d", ")", "U", "N", "8", "8", "0",
    "c", "m", "d", "s", "(", "0", "1", " ", "0", "2", " ", "0", "3", " ",
    "0", "C", " ", "E", "3", " ", "F", "3", ")", "v", "c", "p", "(", "0",
    "2", " ", "0", "4", " ", "0", "5", " ", "0", "8", " ", "1", "0", " ",
    "1", "2", " ", "1", "4", "(", "0", "5", " ", "0", "8", " ", "0", "B",
    " ", ")", " ", "1", "6", " ", "1", "8", " ", "1", "A", " ", "5", "2",
    " ", "6", "0", "(", " ", "1", "1", " ", "1", "2", " ", "0", "F", " ",
    "0", "0", ")", " ", "A", "C", " ", "A", "E", " ", "B", "2", " ", "B",
    "6", " ", "C", "0", " ", "C", "6", " ", "C", "8", " ", "C", "9", " ",
    "D", "6", "(", "0", "1", " ", "0", "4", ")", " ", "D", "F", " ", "6",
    "2", " ", "8", "D", " ", "F", "4", " ", "F", "5", "(", "0", "0", " ",
    "0", "1", " ", "0", "2", ")", " ", "F", "6", "(", "0", "0", " ", "0",
    "1", " ", "0", "2", ")", " ", "4", "D", " ", "4", "E", " ", "4", "F",
    " ", "1", "5", "(", "0", "1", " ", "0", "6", " ", "1", "1", " ", "1",
    "3", " ", "1", "4", " ", "1", "5", " ", "1", "8", " ", "1", "9", " ",
    "2", "8", " ", "2", "9", " ", "4", "8", ")", " ", "F", "7", "(", "0",
    "0", " ", "0", "1", " ", "0", "2", " ", "0", "3", ")", " ", "F", "8",
    "(", "0", "0", " ", "0", "1", ")", " ", "F", "9", " ", "E", "4", " ",
    "E", "5", " ", "E", "6", " ", "E", "7", " ", "E", "8", " ", "E", "9",
    " ", "E", "A", " ", "E", "B", " ", "E", "F", " ", "F", "D", "(", "0",
    "0", " ", "0", "1", ")", " ", "F", "E", "(", "0", "0", " ", "0", "1",
    " ", "0", "2", ")", " ", "F", "F", ")", "m", "c", "c", "s", "_", "v",
    "e", "r", "(", "2", ".", "1", ")", "m", "s", "w", "h", "q", "l", "(",
    "1", ")", ")" >>
\* the snapshot of tests::un880
UN880Commands == <<
    Command(2, <<>>), Command(4, <<>>), Command(5, <<>>), Command(8, <<>>),
    Command(16, <<>>), Command(18, <<>>), Command(20, <<5, 8, 11>>),
    Command(22, <<>>), Command(24, <<>>), Command(26, <<>>),
    Command(82, <<>>), Command(96, <<17, 18, 15, 0>>), Command(172, <<>>),
    Command(174, <<>>), Command(178, <<>>), Command(182, <<>>),
    Command(192, <<>>), Command(198, <<>>), Command(200, <<>>),
    Command(201, <<>>), Command(214, <<1, 4>>), Command(223, <<>>),
    Command(98, <<>>), Command(141, <<>>), Command(244, <<>>),
    Command(245, <<0, 1, 2>>), Command(246, <<0, 1, 2>>), Command(77, <<>>),
    Command(78, <<>>), Command(79, <<>>),
    Command(21, <<1, 6, 17, 19, 20, 21, 24, 25, 40, 41, 72>>),
    Command(247, <<0, 1, 2, 3>>), Command(248, <<0, 1>>), Command(249, <<>>),
    Command(228, <<>>), Command(229, <<>>), Command(230, <<>>),
    Command(231, <<>>), Command(232, <<>>), Command(233, <<>>),
    Command(234, <<>>), Command(235, <<>>), Command(239, <<>>),
    Command(253, <<0, 1>>), Command(254, <<0, 1, 2>>), Command(255, <<>>) >>
SampleText(name) ==
    CASE name = "un880" -> UN880
      [] name = "invalid_token" -> <<"(", "p", "r", "o", "t", "(", "$", ")", ")">>
      [] name = "eof1" ->
            <<"(", "p", "r", "o", "t", "(", "m", "o", "n", "i", "t", "o", "r">>
      [] name = "eof2" -> <<"(", "v", "c", "p", "(", "0", "1", " ", "0", "2">>
      [] name = "expected_vcp_code_or_value" ->
            <<"(", "v", "c", "p", "(", "0", "1", " ", "0", "2", " ",
              "m", "o", "n", "i", "t", "o", "r", ")", ")">>
      [] name = "unexpected_token" ->
            <<"(", "v", "c", "p", ")", "0", "1", " ", "0", "2", " ", "0", "3", ")", ")">>
SampleNames == {"un880", "invalid_token", "eof1", "eof2",
                "expected_vcp_code_or_value", "unexpected_token"}

CodeBytes == {20, 96}
ValueBytes == {17, 0}
SeqsUpTo(S, n) == UNION {[1..k -> S] : k \in 0..n}
Entry(c, l, vs) == [code |-> c, list |-> l, values |-> vs]
\* every entry over the bytes above, for the strings of one entry
Entries ==
    {Entry(c, FALSE, <<>>) : c \in CodeBytes}
    \cup {Entry(c, TRUE, vs) : c \in CodeBytes, vs \in SeqsUpTo(ValueBytes, MaxValues)}
\* the entries of the strings of several entries
FewEntries == {Entry(20, FALSE, <<>>), Entry(20, TRUE, <<>>), Entry(96, TRUE, <<17, 0>>)}
\* the entries of the strings that carry a fault
FaultEntries == {Entry(20, FALSE, <<>>), Entry(96, TRUE, <<17, 0>>)}

Caps(p, q, v, es, f) ==
    [kind |-> "caps", pre |-> p, post |-> q, hasVcp |-> v, entries |-> es, fault |-> f]
Sample(name) == [kind |-> "sample", name |-> name]

Bases(ES) ==
    {Caps(p, q, TRUE, es, NoFault) : p \in 0..MaxPre, q \in 0..MaxPost, es \in ES}
    \cup {Caps(p, q, FALSE, <<>>, NoFault) : p \in 0..MaxPre, q \in 0..MaxPost}

Faulted(b) ==
    LET n == Len(BasePieces(b))
    IN  {[b EXCEPT !.fault = Cut(k)] : k \in 0..(n - 1)}
        \cup {[b EXCEPT !.fault = Subst(k, name)] : k \in 1..n, name \in FaultNames}

\* strings put together from lexemes without any grammar, and words between
\* two such lexemes
MaxRaw == 3
RawLex == {<<"(">>, <<")">>, <<" ">>, <<"v", "c", "p">>, <<"0", "1">>, <<"$">>}
Words == {<<"v", "c", "p", "x">>, <<"0", "1", "2">>, <<"0", "b">>, <<"0", "G">>,
          <<"A", "F">>, <<"v", "c">>, <<"_", "9">>}
\* runs with a dot in them
DotWords == {<<"a", ".", "b">>, <<"1", "2", ".", "5">>, <<"v", "1", ".", "1", "0">>,
             <<"2", ".", "1">>}
Raw(ls) == [kind |-> "raw", lexemes |-> ls]
RawDocs ==
    {Raw(ls) : ls \in SeqsUpTo(RawLex, MaxRaw)}
    \cup {Raw(a \o <<w>> \o b) : a \in SeqsUpTo(RawLex, 1), w \in Words,
                                b \in SeqsUpTo(RawLex, 1)}
    \cup {Raw(a \o <<w>> \o b) : a \in SeqsUpTo({<<"(">>}, 1), w \in DotWords,
                                b \in SeqsUpTo({<<")">>}, 1)}
RECURSIVE Flatten(_)
Flatten(ls) == IF ls = <<>> THEN <<>> ELSE ls[1] \o Flatten(Tail(ls))

\* a group nested between the parentheses of a group of b
Nested(b) ==
    {[b EXCEPT !.fault = Subst(k, "nested")] :
        k \in {j \in 1..Len(BasePieces(b)) : BasePieces(b)[j].role = "garg"}}

\* a further vcp group, vcp(02), before the vcp group of b or after it
SecondVcp(b) ==
    LET ps == BasePieces(b)
        at == {k \in 1..Len(ps) : ps[k].role = "vcp"}
              \cup {k + 1 : k \in {j \in 1..Len(ps) : ps[j].role = "vclose"}}
    IN  {[b EXCEPT !.fault = Insert(k, "vcpgroup")] : k \in at}

\* two calls of parse, one after the other: on the string of a, then of b
Twice(a, b) == [kind |-> "twice", a |-> a, b |-> b]
TwiceBases ==
    {Caps(1, 1, TRUE, <<Entry(20, FALSE, <<>>), Entry(96, TRUE, <<17, 0>>)>>, NoFault),
     Caps(1, 0, FALSE, <<>>, NoFault)}
\* spaces or NULs put between two adjacent pieces of b, NULs after the last too
Spaces == {"space", "space2", "space3"}
Nuls == {"nul", "nul2"}
Padded(b) ==
    LET n == Len(BasePieces(b))
    IN  {[b EXCEPT !.fault = Insert(k, name)] : k \in 2..n, name \in Spaces}
        \cup {[b EXCEPT !.fault = Insert(k, name)] : k \in 2..(n + 1), name \in Nuls}
\* the second call on the string without the padding, or on the same string
TwiceDocs ==
    UNION {{Twice(a, b) : a \in Padded(b)} : b \in TwiceBases}
    \cup {Twice(a, a) : a \in TwiceBases
                            \cup Faulted(Caps(1, 0, TRUE, <<Entry(96, TRUE, <<17, 0>>)>>,
                                               NoFault))
                            \cup {Sample(name) : name \in SampleNames}}

Docs ==
    Bases({<<e>> : e \in Entries})
    \cup Bases(SeqsUpTo(FewEntries, MaxEntries))
    \cup UNION {Faulted(b) : b \in Bases(SeqsUpTo(FaultEntries, MaxFaultEntries))}
    \cup UNION {Nested(b) : b \in Bases({<<e>> : e \in FaultEntries})}
    \cup {Sample(name) : name \in SampleNames}
    \cup UNION {SecondVcp(b) : b \in Bases({<<e>> : e \in FaultEntries})}
    \cup RawDocs
    \cup TwiceDocs

Text(d) ==
    CASE d.kind = "sample" -> SampleText(d.name)
      [] d.kind = "raw" -> Flatten(d.lexemes)
      [] d.kind = "caps" -> Concat(Pieces(d))
\* the argument of the first call
FirstOf(d) == IF d.kind = "twice" THEN d.a ELSE d

---------------------------------------------------------------------------
(* Capabilities and its queries (src/src/cap.rs)                            *)

INPUT_SELECT_CODE == 96

None == [some |-> FALSE, v |-> <<>>]
Some(x) == [some |-> TRUE, v |-> x]
\* Capabilities { vcp }
Capabilities(vcp) == [vcp |-> vcp]
VcpCode(c, vs) == [code |-> c, values |-> vs]

\* impl From<Input> for u8
InputToByte(i) ==
    CASE i = "DisplayPort1" -> 15
      [] i = "DisplayPort2" -> 16
      [] i = "Hdmi1" -> 17
      [] i = "Hdmi2" -> 18

\* the conversion with Hdmi1 and Hdmi2 taken for one another
try_from_Swapped(value) ==
    CASE value = 15 -> Some("DisplayPort1")
      [] value = 16 -> Some("DisplayPort2")
      [] value = 17 -> Some("Hdmi2")
      [] value = 18 -> Some("Hdmi1")
      [] OTHER -> None

\* impl TryFrom<u8> for Input
try_from(value) ==
    CASE value = 15 -> Some("DisplayPort1")
      [] value = 16 -> Some("DisplayPort2")
      [] value = 17 -> Some("Hdmi1")
      [] value = 18 -> Some("Hdmi2")
      [] OTHER -> None

RECURSIVE AnyInputSelect_All(_)
\* all in the place of any
AnyInputSelect_All(vcp_codes) ==
    IF vcp_codes = <<>> THEN TRUE
    ELSE IF vcp_codes[1].code # INPUT_SELECT_CODE THEN FALSE
    ELSE AnyInputSelect_All(Tail(vcp_codes))

RECURSIVE AnyInputSelect(_)
\* vcp_codes.iter().any(|vcp_code| vcp_code.code == INPUT_SELECT_CODE)
AnyInputSelect(vcp_codes) ==
    IF vcp_codes = <<>> THEN FALSE
    ELSE IF vcp_codes[1].code = INPUT_SELECT_CODE THEN TRUE
    ELSE AnyInputSelect(Tail(vcp_codes))

\* Capabilities::has_input_select
has_input_select(c) == c.vcp.some /\ AnyInputSelect(c.vcp.v)

RECURSIVE PushInputs_StopAtUnmapped(_)
\* the loop ending at the first value without an Input
PushInputs_StopAtUnmapped(values) ==
    IF values = <<>> THEN <<>>
    ELSE IF try_from(values[1]).some
         THEN <<try_from(values[1]).v>> \o PushInputs_StopAtUnmapped(Tail(values))
    ELSE <<>>

RECURSIVE PushInputs(_)
\* the loop of Capabilities::inputs over the values of the entry found
PushInputs(values) ==
    IF values = <<>> THEN <<>>
    ELSE (IF try_from(values[1]).some THEN <<try_from(values[1]).v>> ELSE <<>>)
         \o PushInputs(Tail(values))

RECURSIVE FindInputSelect(_)
\* vcp_codes.iter().find(|vcp_code| vcp_code.code == INPUT_SELECT_CODE)
FindInputSelect(vcp_codes) ==
    IF vcp_codes = <<>> THEN None
    ELSE IF vcp_codes[1].code = INPUT_SELECT_CODE THEN Some(vcp_codes[1])
    ELSE FindInputSelect(Tail(vcp_codes))

\* Capabilities::inputs
inputs(c) ==
    IF ~c.vcp.some THEN None
    ELSE LET vcp_code == FindInputSelect(c.vcp.v)
         IN  IF ~vcp_code.some THEN None
             ELSE Some(PushInputs(vcp_code.v.values))

Unset == [set |-> FALSE, v |-> None]
\* no conversion under way
NoConv == [from |-> "none", arg |-> None, out |-> None, back |-> None, step |-> 0]
Ret(x) == [set |-> TRUE, v |-> x]
NoCap == Capabilities(None)

\* bounds of the queried Capabilities values
MaxCapEntries == 3
MaxCapValues == 4
CapValues == {0, 15, 16, 17, 18}
\* one input-select entry with every value list, or several entries
CapEntries ==
    {VcpCode(20, <<>>), VcpCode(20, <<17>>), VcpCode(96, <<>>), VcpCode(96, <<0>>),
     VcpCode(96, <<17, 15>>), VcpCode(96, <<18, 96>>)}
CapSet ==
    {Capabilities(None)}
    \cup {Capabilities(Some(<<VcpCode(INPUT_SELECT_CODE, vs)>>)) :
            vs \in SeqsUpTo(CapValues, MaxCapValues)}
    \cup {Capabilities(Some(es)) : es \in SeqsUpTo(CapEntries, MaxCapEntries)}

CallHasInputSelect ==
    /\ pc = "query"
    /\ ~hasSel.set
    /\ hasSel' = Ret(has_input_select(cap))
    /\ UNCHANGED <<parseVars, cap, inp, earlier, conv, monVars>>

CallInputs ==
    /\ pc = "query"
    /\ ~inp.set
    /\ inp' = Ret(inputs(cap))
    /\ UNCHANGED <<parseVars, cap, hasSel, earlier, conv, monVars>>

\* the values of u8, and of Input
Bytes == 0..255
InputValues == {"DisplayPort1", "DisplayPort2", "Hdmi1", "Hdmi2"}
\* a value of type ty to convert, to the other type and back
Conv(ty, x) == [from |-> ty, arg |-> Some(x), out |-> None, back |-> None, step |-> 0]
\* the value the next conversion is applied to: the argument, then the result
AtHand == IF conv.step = 0 THEN conv.arg ELSE conv.out
HandIsInput == (conv.from = "Input") <=> (conv.step = 0)
Converted(y) ==
    IF conv.step = 0 THEN [conv EXCEPT !.out = y, !.step = 1]
    ELSE [conv EXCEPT !.back = y, !.step = 2]

\* u8::from(input), input.into()
CallFrom ==
    /\ pc = "convert"
    /\ conv.step < 2
    /\ AtHand.some
    /\ HandIsInput
    /\ conv' = Converted(Some(InputToByte(AtHand.v)))
    /\ UNCHANGED <<parseVars, capVars, earlier, monVars>>

\* Input::try_from(value): Ok(input) is Some(input), Err(()) is None
CallTryFrom ==
    /\ pc = "convert"
    /\ conv.step < 2
    /\ AtHand.some
    /\ ~HandIsInput
    /\ conv' = Converted(try_from(AtHand.v))
    /\ UNCHANGED <<parseVars, capVars, earlier, monVars>>

\* a second call of parse that goes on with the token buffer of the first
ParseAgain_KeepTokens ==
    /\ pc = "done"
    /\ doc.kind = "twice"
    /\ earlier = Pending
    /\ earlier' = result
    /\ s' = Text(doc.b)
    /\ pos' = 0
    /\ span' = [start |-> 0, end |-> 0]
    /\ index' = 0
    /\ commands' = <<>>
    /\ cur' = NoCommand
    /\ result' = Pending
    /\ pc' = "lex"
    /\ UNCHANGED <<doc, tokens, capVars, conv, monVars>>

\* a second call of parse, on the string of doc.b: let mut tokens = Vec::new(),
\* a new lexer on s, Parser::new(&tokens) with index 0
ParseAgain ==
    /\ pc = "done"
    /\ doc.kind = "twice"
    /\ earlier = Pending
    /\ earlier' = result
    /\ s' = Text(doc.b)
    /\ pos' = 0
    /\ span' = [start |-> 0, end |-> 0]
    /\ tokens' = <<>>
    /\ index' = 0
    /\ commands' = <<>>
    /\ cur' = NoCommand
    /\ result' = Pending
    /\ pc' = "lex"
    /\ UNCHANGED <<doc, capVars, conv, monVars>>

---------------------------------------------------------------------------
(* The capabilities cache (src/src/cache.rs): one table whose rows are      *)
(* (id, device_id, capabilities_string); `rows` lists them in rowid order,  *)
(* the order in which the full scan of get visits them.                     *)

\* the device ids and capability strings of the displays
DeviceIds == {"MONITOR\\A", "MONITOR\\B"}
CapabilityStrings == {"(vcp(60(0F 11)))", "(vcp(60(10 12)))", "(vcp(60(0F 11"}
\* the most rows the table is let grow to
MaxRows == 3

\* an absent Option<String>
NoString == [some |-> FALSE, v |-> ""]

\* struct CapabilitiesCacheEntry
CapabilitiesCacheEntry(device_id, capabilities_string) ==
    [device_id |-> device_id, capabilities_string |-> capabilities_string]

\* CapabilitiesCache::get: SELECT of every row, then find the first row whose
\* device_id is the wanted one
get(table, device_id) ==
    LET hits == {i \in 1..Len(table) : table[i].device_id = device_id}
    IN IF hits = {}
       THEN NoString
       ELSE Some(table[CHOOSE i \in hits : \A j \in hits : i <= j].capabilities_string)

\* an INSERT OR REPLACE keyed by device_id
set_Replace(table, device_id, capabilities_string) ==
    Append(SelectSeq(table, LAMBDA r : r.device_id # device_id),
           CapabilitiesCacheEntry(device_id, capabilities_string))

\* CapabilitiesCache::set: a plain INSERT, the new row gets the next rowid
set(table, device_id, capabilities_string) ==
    Append(table, CapabilitiesCacheEntry(device_id, capabilities_string))

\* a call of a method and what it returned
Call(fn, arg, out) == [fn |-> fn, arg |-> arg, out |-> out]
NoCall == Call("none", <<>>, None)

\* a call of CapabilitiesCache::get; the statement may fail to prepare or run
CallGet ==
    /\ pc = "cache"
    /\ \E d \in DeviceIds, ok \in BOOLEAN :
           call' = Call("get", <<d>>, IF ok THEN Ok(get(rows, d)) ELSE Err("sqlite"))
    /\ UNCHANGED <<lexVars, pc, result, capVars, earlier, conv,
                   hmonitors, hm, monitors, rows, open, destroyed, run>>

\* a call of CapabilitiesCache::set; the INSERT may fail, and then adds no row
CallSet ==
    /\ pc = "cache"
    /\ Len(rows) < MaxRows
    /\ \E d \in DeviceIds, str \in CapabilityStrings, ok \in BOOLEAN :
           /\ rows' = IF ok THEN set(rows, d, str) ELSE rows
           /\ call' = Call("set", <<d, str>>, IF ok THEN Ok(<<>>) ELSE Err("sqlite"))
    /\ UNCHANGED <<lexVars, pc, result, capVars, earlier, conv,
                   hmonitors, hm, monitors, open, destroyed, run>>

---------------------------------------------------------------------------
(* Monitors (src/src/monitor.rs): get_monitors, the enumeration callback,   *)
(* Monitor::new, Monitor::input and Drop.  A display monitor is described   *)
(* by what the system calls made on it return.                              *)

\* a display monitor: the number of its physical monitors ("none", "one",
\* "many", or "fail" when a call of get_physical_monitor fails), the device
\* name, device id and friendly name looked up for it (None when the lookup
\* fails) and the capability string its device replies
HMonitor(physical, device_name, device_id, friendly_name, capabilities_string) ==
    [physical |-> physical, device_name |-> device_name, device_id |-> device_id,
     friendly_name |-> friendly_name, capabilities_string |-> capabilities_string]

\* how a query of the device for its capability string ends: the string, a
\* failed length request, a length of zero, a failed reply, a reply that is
\* not UTF-8
Replies == {"ok", "length", "empty", "reply", "utf8"}
\* whether the cache opens, and whether its get and its set succeed
CacheOutcomes ==
    {c \in [open : BOOLEAN, get : BOOLEAN, set : BOOLEAN] : ~c.open => (~c.get /\ ~c.set)}

\* get_physical_monitor: the handle, when there is exactly one
get_physical_monitor(hmonitor, handle) ==
    IF hmonitor.physical = "one" THEN Ok(handle) ELSE Err(hmonitor.physical)

\* a fetch that stores nothing
get_capabilities_string_NoStore(handle, device_id, hmonitor, table, c, q) ==
    LET cached == IF c.open /\ c.get THEN get(table, device_id) ELSE NoString
    IN IF cached.some
       THEN [ret |-> Ok(cached.v), rows |-> table, queried |-> FALSE]
       ELSE [ret |-> IF q # "ok" THEN Err(q) ELSE Ok(hmonitor.capabilities_string),
             rows |-> table, queried |-> TRUE]

\* get_capabilities_string: the cached string if the cache opens and has one,
\* else the device's reply, stored if the cache opened
get_capabilities_string(handle, device_id, hmonitor, table, c, q) ==
    LET cached == IF c.open /\ c.get THEN get(table, device_id) ELSE NoString
    IN IF cached.some
       THEN [ret |-> Ok(cached.v), rows |-> table, queried |-> FALSE]
       ELSE IF q # "ok"
            THEN [ret |-> Err(q), rows |-> table, queried |-> TRUE]
            ELSE [ret |-> Ok(hmonitor.capabilities_string),
                  rows |-> IF c.open /\ c.set
                           THEN set(table, device_id, hmonitor.capabilities_string)
                           ELSE table,
                  queried |-> TRUE]

\* parse::parse_capabilities_string: the Capabilities of a string, or an error
parse_capabilities_string(str) ==
    CASE str = "(vcp(60(0F 11)))" -> Ok(Capabilities(Some(<<VcpCode(96, <<15, 17>>)>>)))
      [] str = "(vcp(60(10 12)))" -> Ok(Capabilities(Some(<<VcpCode(96, <<16, 18>>)>>)))
      [] OTHER -> Err("parse")

\* struct Monitor
Monitor(handle, name, capabilities) ==
    [handle |-> handle, name |-> name, capabilities |-> capabilities]

\* what a call of Monitor::new does: what it returns, whether it obtained the
\* handle, what get_capabilities_string returned if it was called, and the rows
\* of the cache after it
Made(ret, obtained, fetch, table) ==
    [ret |-> ret, obtained |-> obtained, fetch |-> fetch, rows |-> table]
NoFetch == [called |-> FALSE, ret |-> Pending, queried |-> FALSE]
Fetched(f) == [called |-> TRUE, ret |-> f.ret, queried |-> f.queried]

\* Monitor::new
Monitor_new(hmonitor, handle, table, c, q) ==
    LET physical_monitor == get_physical_monitor(hmonitor, handle)
        f == get_capabilities_string(handle, hmonitor.device_id.v, hmonitor, table, c, q)
        capabilities == parse_capabilities_string(f.ret.value)
    IN IF ~physical_monitor.ok
       THEN Made(Err(physical_monitor.err), FALSE, NoFetch, table)
       ELSE IF ~hmonitor.device_name.some
       THEN Made(Err("device name"), TRUE, NoFetch, table)
       ELSE IF ~hmonitor.device_id.some
       THEN Made(Err("device id"), TRUE, NoFetch, table)
       ELSE IF ~hmonitor.friendly_name.some
       THEN Made(Err("friendly name"), TRUE, NoFetch, table)
       ELSE IF ~f.ret.ok
       THEN Made(Err(f.ret.err), TRUE, Fetched(f), f.rows)
       ELSE IF ~capabilities.ok
       THEN Made(Err(capabilities.err), TRUE, Fetched(f), f.rows)
       ELSE Made(Ok(Monitor(handle, hmonitor.friendly_name.v, capabilities.value)),
                 TRUE, Fetched(f), f.rows)

\* the handle GetPhysicalMonitorsFromHMONITOR gives for the i-th display
\* monitor
HandleOf(i) == i

\* the outcomes a call of Monitor::new can meet: the cache and the device are
\* asked only when get_capabilities_string is reached, the device only after a
\* miss, and set is called only after a reply
Meets(hmonitor, table, c, q) ==
    LET asked == /\ hmonitor.physical = "one"
                 /\ hmonitor.device_name.some
                 /\ hmonitor.device_id.some
                 /\ hmonitor.friendly_name.some
        hit == c.open /\ c.get /\ get(table, hmonitor.device_id.v).some
    IN IF ~asked THEN c.open /\ c.get /\ c.set /\ q = "ok"
       ELSE IF hit THEN c.set /\ q = "ok"
       ELSE q # "ok" => (c.open => c.set)

\* a callback that stops the enumeration when Monitor::new fails
enum_display_monitors_callback_Stop ==
    /\ pc = "enumerate"
    /\ hm < Len(hmonitors)
    /\ \E c \in CacheOutcomes, q \in Replies :
           LET made == Monitor_new(hmonitors[hm + 1], HandleOf(hm + 1), rows, c, q)
           IN /\ Meets(hmonitors[hm + 1], rows, c, q)
              /\ monitors' = IF made.ret.ok THEN Append(monitors, made.ret.value)
                             ELSE monitors
              /\ rows' = made.rows
              /\ open' = IF made.obtained THEN open \cup {HandleOf(hm + 1)} ELSE open
              /\ call' = Call("new", <<hm + 1, c, q>>, made)
              /\ hm' = IF made.ret.ok THEN hm + 1 ELSE Len(hmonitors)
    /\ UNCHANGED <<lexVars, pc, result, capVars, earlier, conv, hmonitors, destroyed, run>>

\* enum_display_monitors_callback: Monitor::new on the next display monitor,
\* pushed if Ok and logged if Err; TRUE is returned either way
enum_display_monitors_callback ==
    /\ pc = "enumerate"
    /\ hm < Len(hmonitors)
    /\ \E c \in CacheOutcomes, q \in Replies :
           LET made == Monitor_new(hmonitors[hm + 1], HandleOf(hm + 1), rows, c, q)
           IN /\ Meets(hmonitors[hm + 1], rows, c, q)
              /\ monitors' = IF made.ret.ok THEN Append(monitors, made.ret.value)
                             ELSE monitors
              /\ rows' = made.rows
              /\ open' = IF made.obtained THEN open \cup {HandleOf(hm + 1)} ELSE open
              /\ call' = Call("new", <<hm + 1, c, q>>, made)
    /\ hm' = hm + 1
    /\ UNCHANGED <<lexVars, pc, result, capVars, earlier, conv, hmonitors, destroyed, run>>

\* get_monitors: EnumDisplayMonitors has called the callback for every display
\* monitor and reports success, or it reports a failure of its own
get_monitors ==
    /\ pc = "enumerate"
    /\ \E ok \in BOOLEAN :
           /\ ok => hm = Len(hmonitors)
           /\ result' = IF ok THEN Ok(monitors)
                        ELSE Err("failed to enumerate display monitors")
    /\ pc' = "returned"
    /\ UNCHANGED <<lexVars, capVars, earlier, conv, monVars>>

\* the 32-bit values a device replies for a VCP code
Values == {0, 15, 17, 18, 271, 2147483410}

\* Monitor::input: the reply's low byte converted to an Input; expect panics
\* when the conversion fails
Monitor_input(ok, value) ==
    IF ~ok
    THEN [panic |-> FALSE, ret |-> Err("failed to retrieve the value")]
    ELSE LET input == try_from(value % 256)
         IN IF input.some
            THEN [panic |-> FALSE, ret |-> Ok(input.v)]
            ELSE [panic |-> TRUE, ret |-> Pending]

\* a call of Monitor::input on a monitor get_monitors returned
CallInput ==
    /\ pc = "returned"
    /\ result.ok
    /\ \E m \in 1..Len(monitors), ok \in BOOLEAN, value \in Values :
           LET r == Monitor_input(ok, value)
           IN /\ ok \/ value = 0
              /\ call' = Call("input", <<m, ok, value>>, r)
              /\ pc' = IF r.panic THEN "panic" ELSE pc
    /\ UNCHANGED <<lexVars, result, capVars, earlier, conv,
                   hmonitors, hm, monitors, rows, open, destroyed, run>>

\* impl Drop for Monitor, as the Vec of monitors is dropped front to back
Drop ==
    /\ pc \in {"returned", "dropping"}
    /\ monitors # <<>>
    /\ destroyed' = Append(destroyed, Head(monitors).handle)
    /\ open' = open \ {Head(monitors).handle}
    /\ call' = Call("drop", <<Head(monitors).handle>>, Ok(<<>>))
    /\ monitors' = Tail(monitors)
    /\ pc' = "dropping"
    /\ UNCHANGED <<lexVars, result, capVars, earlier, conv,
                   hmonitors, hm, rows, run>>

\* every monitor of the Vec has been dropped
Dropped ==
    /\ pc \in {"returned", "dropping"}
    /\ monitors = <<>>
    /\ pc' = "dropped"
    /\ UNCHANGED <<lexVars, result, capVars, earlier, conv, monVars>>

\* the most display monitors enumerated, and the most calls of get_monitors
MaxMonitors == 2
MaxRuns == 2

\* the program run again, on the same displays and the same cache file: a new
\* process, with no handle of the process before it
GetMonitorsAgain ==
    /\ pc = "dropped"
    /\ run < MaxRuns
    /\ run' = run + 1
    /\ hm' = 0
    /\ open' = {}
    /\ destroyed' = <<>>
    /\ call' = NoCall
    /\ result' = Pending
    /\ pc' = "enumerate"
    /\ UNCHANGED <<lexVars, capVars, earlier, conv, hmonitors, monitors, rows>>

\* the display monitors: each stops Monitor::new at one step, or at none
HMonitors ==
    {HMonitor(p, NoString, NoString, NoString, "") : p \in {"none", "many", "fail"}}
    \cup {HMonitor("one", NoString, NoString, NoString, "")}
    \cup {HMonitor("one", Some("DISPLAY1"), NoString, NoString, "")}
    \cup {HMonitor("one", Some("DISPLAY1"), Some("MONITOR\\A"), NoString, "")}
    \cup {HMonitor("one", Some("DISPLAY1"), Some("MONITOR\\A"), Some("U2720Q"), str) :
              str \in CapabilityStrings}
    \cup {HMonitor("one", Some("DISPLAY2"), Some("MONITOR\\B"), Some("VG259"),
                    "(vcp(60(0F 11)))")}

---------------------------------------------------------------------------
(* Specifications                                                           *)

\* no display monitor enumerated and no cache opened
NoMonitors ==
    /\ hmonitors = <<>>
    /\ hm = 0
    /\ monitors = <<>>
    /\ rows = <<>>
    /\ open = {}
    /\ destroyed = <<>>
    /\ run = 0
    /\ call = NoCall

\* parse(s) on every composed string
Init ==
    /\ doc \in Docs
    /\ s = Text(FirstOf(doc))
    /\ pos = 0
    /\ span = [start |-> 0, end |-> 0]
    /\ tokens = <<>>
    /\ index = 0
    /\ commands = <<>>
    /\ cur = NoCommand
    /\ pc = "lex"
    /\ result = Pending
    /\ cap = NoCap
    /\ hasSel = Unset
    /\ inp = Unset
    /\ earlier = Pending
    /\ conv = NoConv
    /\ NoMonitors

Next ==
    \/ LexToken
    \/ LexEnd
    \/ EatUntil
    \/ ExpectVcp
    \/ ExpectLeftParen
    \/ CommandsCheck
    \/ ParseCommandCode
    \/ EatLeftParen
    \/ ValuesCheck
    \/ ParseValue
    \/ ExpectValuesClose
    \/ ExpectCommandsClose
    \/ ParseAgain

Spec == Init /\ [][Next]_vars

\* parse run to its end: a call of parse is sequential code that keeps running
\* until it returns, on the grammar-free strings, the two-call strings and the
\* strings of one entry
LiveDocs == RawDocs \cup TwiceDocs \cup Bases({<<e>> : e \in Entries})
InitLive ==
    /\ Init
    /\ doc \in LiveDocs
SpecLive == InitLive /\ [][Next]_vars /\ WF_vars(Next)

\* no string under parse
NoParse ==
    /\ doc = Sample("none")
    /\ s = <<>>
    /\ pos = 0
    /\ span = [start |-> 0, end |-> 0]
    /\ tokens = <<>>
    /\ index = 0
    /\ commands = <<>>
    /\ cur = NoCommand
    /\ result = Pending
    /\ cap = NoCap
    /\ hasSel = Unset
    /\ inp = Unset
    /\ earlier = Pending
    /\ conv = NoConv

\* get and set called in any order on a cache that starts empty
InitCache ==
    /\ NoParse
    /\ NoMonitors
    /\ pc = "cache"

NextCache ==
    \/ CallGet
    \/ CallSet

SpecCache == InitCache /\ [][NextCache]_vars

\* get_monitors on every enumeration of up to MaxMonitors display monitors,
\* with a cache that starts empty
InitMon ==
    /\ NoParse
    /\ hmonitors \in UNION {[1..n -> HMonitors] : n \in 0..MaxMonitors}
    /\ hm = 0
    /\ monitors = <<>>
    /\ rows = <<>>
    /\ open = {}
    /\ destroyed = <<>>
    /\ run = 1
    /\ call = NoCall
    /\ pc = "enumerate"

NextMon ==
    \/ enum_display_monitors_callback
    \/ get_monitors
    \/ CallInput
    \/ Drop
    \/ Dropped
    \/ GetMonitorsAgain

SpecMon == InitMon /\ [][NextMon]_vars

\* the queries on every Capabilities value of CapSet
InitCap ==
    /\ doc = Sample("none")
    /\ s = <<>>
    /\ pos = 0
    /\ span = [start |-> 0, end |-> 0]
    /\ tokens = <<>>
    /\ index = 0
    /\ commands = <<>>
    /\ cur = NoCommand
    /\ pc = "query"
    /\ result = Pending
    /\ cap \in CapSet
    /\ hasSel = Unset
    /\ inp = Unset
    /\ earlier = Pending
    /\ conv = NoConv
    /\ NoMonitors

NextCap ==
    \/ CallHasInputSelect
    \/ CallInputs

SpecCap == InitCap /\ [][NextCap]_vars

\* the conversions between Input and u8 on every Input and every byte
InitInput ==
    /\ doc = Sample("none")
    /\ s = <<>>
    /\ pos = 0
    /\ span = [start |-> 0, end |-> 0]
    /\ tokens = <<>>
    /\ index = 0
    /\ commands = <<>>
    /\ cur = NoCommand
    /\ pc = "convert"
    /\ result = Pending
    /\ cap = NoCap
    /\ hasSel = Unset
    /\ inp = Unset
    /\ earlier = Pending
    /\ conv \in {Conv("u8", x) : x \in Bytes} \cup {Conv("Input", x) : x \in InputValues}
    /\ NoMonitors

NextInput ==
    \/ CallFrom
    \/ CallTryFrom

SpecInput == InitInput /\ [][NextInput]_vars

---------------------------------------------------------------------------
(* Properties                                                               *)

Done == pc = "done"
IsCaps == doc.kind = "caps"
\* the entries a composed string declares in its vcp group
Declared(d) == [k \in 1..Len(d.entries) |-> Command(d.entries[k].code, d.entries[k].values)]
\* the place of the piece with a role that occurs once
RoleAt(d, role) == CHOOSE k \in 1..Len(BasePieces(d)) : BasePieces(d)[k].role = role
FaultRole(d) == BasePieces(d)[d.fault.at].role
IsSubst(names, roles) ==
    /\ IsCaps
    /\ doc.fault.kind = "subst"
    /\ doc.fault.lex \in names
    /\ FaultRole(doc) \in roles
\* the token a lexeme put in another's place stands for
FaultToken(name) ==
    CASE name = "ident" -> Identifier(<<"m", "o", "n", "i", "t", "o", "r">>)
      [] name = "vcp" -> Vcp
      [] name = "lparen" -> LeftParen
      [] name = "version" -> Version
\* the characters no rule of Token matches and the lexer does not skip
Unlexable == {"$", "#"}
IsMappedByte(b) == b \in {15, 16, 17, 18}
Inputs == {"DisplayPort1", "DisplayPort2", "Hdmi1", "Hdmi2"}

\* C1: when parse accepts a string, it returns the entries of the vcp group in
\* their declared order, each with its code and its values in declared order,
\* an entry without a list with no values; the UN880 string yields the
\* entries of its snapshot (0x14 -> 05 08 0B, 0x60 -> 11 12 0F 00).
C1_EntriesAsDeclared ==
    Done =>
        /\ (IsCaps /\ doc.hasVcp /\ doc.fault.kind \in {"none", "cut"} /\ result.ok)
                => result.value = Declared(doc)
        /\ doc = Sample("un880") => result = Ok(UN880Commands)
C1_Witness ==
    /\ Done
    /\ doc = Sample("un880")
    /\ result.ok
    /\ result.value[7] = Command(20, <<5, 8, 11>>)
    /\ result.value[12] = Command(96, <<17, 18, 15, 0>>)

\* C2: a string in outer parentheses without a vcp group parses successfully
\* to a model whose vcp is None, on which has_input_select is false and
\* inputs is None.
C2_NoVcpParsesToNone ==
    (Done /\ IsCaps /\ ~doc.hasVcp /\ doc.fault.kind = "none") =>
        /\ result.ok
        /\ ~has_input_select(Capabilities(None))
        /\ inputs(Capabilities(None)) = None

\* C3: inputs is None when vcp is None or no entry has code 0x60; otherwise it
\* is the values of the first 0x60 entry that have an Input, as Inputs, in
\* their order, and nothing else (Some(empty) when none has one).
C3_InputsOfFirstSelectEntry ==
    inp.set =>
        LET found == IF cap.vcp.some
                     THEN {k \in 1..Len(cap.vcp.v) : cap.vcp.v[k].code = 96}
                     ELSE {}
        IN  IF found = {} THEN inp.v = None
            ELSE LET first == CHOOSE k \in found : \A j \in found : k <= j
                     kept == SelectSeq(cap.vcp.v[first].values, IsMappedByte)
                 IN  /\ inp.v.some
                     /\ Len(inp.v.v) = Len(kept)
                     /\ \A j \in 1..Len(kept) :
                            inp.v.v[j] \in Inputs /\ InputToByte(inp.v.v[j]) = kept[j]
C3_Witness ==
    /\ inp.set
    /\ cap = Capabilities(Some(<<VcpCode(96, <<17, 18, 15, 0>>)>>))
    /\ inp.v = Some(<<"Hdmi1", "Hdmi2", "DisplayPort1">>)

\* C4: has_input_select is true exactly when vcp is present and one of its
\* entries has code 0x60, whatever that entry's values.
C4_HasInputSelectIffCode60 ==
    hasSel.set =>
        (hasSel.v <=> (cap.vcp.some /\ 96 \in {cap.vcp.v[k].code : k \in 1..Len(cap.vcp.v)}))
C4_Witness ==
    /\ hasSel.set
    /\ hasSel.v
    /\ cap = Capabilities(Some(<<VcpCode(20, <<17>>), VcpCode(96, <<>>)>>))

\* C5: a string whose vcp group is empty parses to the present, empty entry
\* sequence.
C5_EmptyVcpGroup ==
    (Done /\ IsCaps /\ doc.hasVcp /\ doc.entries = <<>> /\ doc.fault.kind = "none")
        => result = Ok(<<>>)
C5_Witness ==
    /\ Done
    /\ IsCaps /\ doc.hasVcp /\ doc.entries = <<>> /\ doc.fault.kind = "none"
    /\ doc.pre = 1
    /\ result.ok

\* a composed string cut before the ')' of its vcp group, or without vcp
Truncated(d) ==
    /\ d.kind = "caps"
    /\ d.fault.kind = "cut"
    /\ d.hasVcp => d.fault.at < RoleAt(d, "vclose")

\* C6: a token sequence that ends before the vcp group is closed, or in the
\* groups before any vcp keyword, fails with EndOfFile.
C6_TruncatedIsEndOfFile ==
    Done =>
        /\ Truncated(doc) => result = Err(EndOfFile)
        /\ doc \in {Sample("eof1"), Sample("eof2")} => result = Err(EndOfFile)
C6_Witness ==
    /\ Done
    /\ Truncated(doc)
    /\ doc.hasVcp
    /\ doc.fault.at > 0
    /\ FaultRole(doc) = "value"
    /\ result = Err(EndOfFile)

\* C7: a string with a character no rule matches fails with InvalidToken, whose
\* payload is the string between the span's offsets: the first such character;
\* the parser is never started.
C7_InvalidTokenPayload ==
    Done =>
        LET bad == {i \in 1..Len(s) : s[i] \in Unlexable}
        IN  /\ bad # {} =>
                LET first == CHOOSE i \in bad : \A j \in bad : i <= j
                IN  /\ result = Err(InvalidToken(<<s[first]>>))
                    /\ span = [start |-> first - 1, end |-> first]
                    /\ index = 0 /\ commands = <<>> /\ cur = NoCommand
            /\ (IsCaps /\ doc.fault.kind = "subst" /\ doc.fault.lex \in {"bad", "bad2"}) =>
                /\ span.start = Offset(BasePieces(doc), doc.fault.at)
                /\ result.err.text = <<FaultLex(doc.fault.lex)[1]>>
C7_Witness ==
    /\ Done
    /\ doc = Sample("invalid_token")
    /\ result = Err(InvalidToken(<<"$">>))
    /\ span = [start |-> 6, end |-> 7]

\* C8: in the vcp group, an identifier, the vcp keyword or a version where a
\* code or a value is required, or a '(' inside a value list, fails with
\* ExpectedVcpCodeOrValue carrying that token.
C8_NonByteIsExpectedValue ==
    Done =>
        /\ (IsSubst({"ident", "vcp", "version"}, {"code", "value"})
            \/ IsSubst({"lparen"}, {"value"}))
                => result = Err(ExpectedVcpCodeOrValue(FaultToken(doc.fault.lex)))
        /\ doc = Sample("expected_vcp_code_or_value")
                => result = Err(ExpectedVcpCodeOrValue(FaultToken("ident")))
C8_Witness ==
    /\ Done
    /\ IsSubst({"lparen"}, {"value"})
    /\ result.err.kind = "ExpectedVcpCodeOrValue"
    /\ result.err.field0 = LeftParen

\* the token after the first vcp keyword, NoToken if there is none
AfterVcp ==
    LET at == {k \in 1..Len(tokens) : tokens[k] = Vcp}
    IN  IF at = {} THEN NoToken
        ELSE LET first == CHOOSE k \in at : \A j \in at : k <= j
             IN  IF first < Len(tokens) THEN tokens[first + 1] ELSE NoToken

\* C9: when the token after the vcp keyword is not '(', parse fails with an
\* Expected error.
C9_VcpNotFollowedByParen ==
    (Done /\ result.err.kind # "InvalidToken" /\ AfterVcp \notin {NoToken, LeftParen})
        => (~result.ok /\ result.err.kind = "Expected")
C9_Witness ==
    /\ Done
    /\ doc = Sample("unexpected_token")
    /\ AfterVcp = RightParen
    /\ result.err.kind = "Expected"

\* C10: before the vcp group, a ')', a '(' or a hex byte where a group's
\* identifier is expected fails with an Expected error.
C10_StrayTopLevelTokenIsExpected ==
    (Done /\ IsSubst({"rparen", "lparen", "byte"}, {"gid"})
          /\ (doc.hasVcp => doc.fault.at < RoleAt(doc, "vcp")))
        => (~result.ok /\ result.err.kind = "Expected")

\* the tokens parse_commands and parse_command pass to expect
Wanted == {Vcp, LeftParen, RightParen}

\* C11: an Expected error carries the token that was wanted in its first field
\* and the token that was found (the one expect consumed) in its second, the
\* order its message "expected {0}, got {1}" prints them in.
C11_ExpectedWantedThenFound ==
    (Done /\ result.err.kind = "Expected") =>
        /\ result.err.field0 \in Wanted
        /\ result.err.field1 = tokens[index]

\* C14: parse accepts only a string that starts with '(' and whose outer
\* group is closed: a string whose first token is not '(' fails, and a string
\* cut before its last ')' fails.
C14_OuterGroupRequired ==
    (Done /\ IsCaps) =>
        /\ (doc.fault.kind = "cut" /\ doc.fault.at < Len(BasePieces(doc)))
                => ~result.ok
        /\ (doc.fault.kind = "subst" /\ doc.fault.at = 1
            /\ doc.fault.lex \in {"ident", "vcp", "byte", "rparen"})
                => ~result.ok

\* C15: a flat group before or after the vcp group is skipped whatever token
\* stands between its parentheses (an identifier, a hex byte, a version or the
\* vcp keyword): the string parses to the entries of its vcp group.
C15_FlatGroupsSkipped ==
    (Done /\ IsSubst({"ident", "byte", "version", "vcp"}, {"garg"}) /\ doc.hasVcp)
        => result = Ok(Declared(doc))

\* a composed string with a group nested in a group before its vcp group
NestedBeforeVcp ==
    /\ IsSubst({"nested"}, {"garg"})
    /\ doc.hasVcp
    /\ doc.fault.at < RoleAt(doc, "vcp")

ErrorKinds == {"InvalidToken", "Expected", "ExpectedVcpCodeOrValue", "EndOfFile"}

\* C16: parse never aborts: no callback of the lexer panics and no slice is out
\* of range, and on every input parse returns Ok with commands of bytes or one
\* of the four errors InvalidToken, Expected, ExpectedVcpCodeOrValue, EndOfFile.
C16_NeverAborts ==
    /\ pc # "panic"
    /\ Done =>
        IF result.ok
        THEN /\ result.err = NoError
             /\ \A k \in 1..Len(result.value) :
                    /\ result.value[k].code \in 0..255
                    /\ \A j \in 1..Len(result.value[k].values) :
                            result.value[k].values[j] \in 0..255
        ELSE result.err.kind \in ErrorKinds
C16_Witness ==
    /\ Done
    /\ doc = Raw(<<<<"(">>, <<"0", "G">>, <<"$">> >>)
    /\ result = Err(InvalidToken(<<"$">>))
    /\ tokens = <<LeftParen, Identifier(<<"0", "G">>)>>

\* the slice of the last lexer item
LastSlice == SubSeq(s, span.start + 1, span.end)
IsUpperHex(c) == c \in Digits \cup HexLetters

\* C20: an item of the lexer that starts with an identifier character (and is
\* not a version) is the whole run of identifier characters there; it is the
\* vcp keyword when the run is exactly "vcp", a byte with the run's hex value
\* when the run is exactly two characters of [0-9A-F], and otherwise a single
\* identifier token with the run as its text (vcpx, 012, 0b, UN880cmds).
C20_LongestMatchThenPriority ==
    (pc = "lex" /\ tokens # <<>>) =>
        LET t == tokens[Len(tokens)]
            w == LastSlice
        IN  (w[1] \in IdentClass /\ t # Version) =>
                /\ \A i \in 1..Len(w) : w[i] \in IdentClass
                /\ span.end < Len(s) => s[span.end + 1] \notin IdentClass
                /\ t = IF w = <<"v", "c", "p">> THEN Vcp
                       ELSE IF Len(w) = 2 /\ IsUpperHex(w[1]) /\ IsUpperHex(w[2])
                            THEN Code(t.val)
                       ELSE Identifier(w)
                /\ t.kind = "Code" => (t.val \in 0..255 /\ Hex2(t.val) = w)
C20_Witness ==
    /\ pc = "lex"
    /\ doc = Raw(<<<<"v", "c", "p">>, <<"v", "c", "p", "x">>, <<"0", "1">> >>)
    /\ tokens = <<Identifier(<<"v", "c", "p", "v", "c", "p", "x", "0", "1">>)>>

\* the second of two calls has returned
Second == Done /\ doc.kind = "twice" /\ earlier # Pending
\* the first call was on the second's string with one of `names` put in
Inserted(names) ==
    /\ doc.kind = "twice"
    /\ doc.a.kind = "caps"
    /\ doc.a.fault.kind = "insert"
    /\ doc.a.fault.lex \in names
    /\ doc.b = [doc.a EXCEPT !.fault = NoFault]

\* C12: one, two or three spaces put between two adjacent tokens of a string
\* never change what parse returns.
C12_SpacesNeverMatter ==
    (Second /\ Inserted(Spaces)) => result = earlier

\* C13: NUL bytes after the last token or between two tokens of a string do
\* not change what parse returns, and parse does not fail with InvalidToken.
C13_NulsTolerated ==
    (Second /\ Inserted(Nuls)) =>
        /\ result = earlier
        /\ earlier.err.kind # "InvalidToken"
C13_Witness ==
    /\ Second
    /\ Inserted({"nul2"})
    /\ doc.a.fault.at = Len(BasePieces(doc.a)) + 1
    /\ earlier = Ok(<<Command(20, <<>>), Command(96, <<17, 0>>)>>)
    /\ result = earlier

C17_InputByteBijection ==
    /\ (conv.step >= 1 /\ conv.from = "u8") =>
            /\ conv.out.some <=> conv.arg.v \in {15, 16, 17, 18}
            /\ conv.out.some => conv.out.v \in Inputs
    /\ (conv.step >= 1 /\ conv.from = "Input") =>
            /\ conv.out.some
            /\ conv.out.v \in {15, 16, 17, 18}
    /\ conv.step = 2 => conv.back = conv.arg
    /\ (conv.step = 2 /\ conv.from = "Input") =>
            conv.out.v = CASE conv.arg.v = "DisplayPort1" -> 15
                           [] conv.arg.v = "DisplayPort2" -> 16
                           [] conv.arg.v = "Hdmi1" -> 17
                           [] conv.arg.v = "Hdmi2" -> 18
C17_Witness ==
    /\ conv.step = 2
    /\ conv.from = "u8"
    /\ conv.arg = Some(18)
    /\ conv.out = Some("Hdmi2")
    /\ conv.back = Some(18)

\* a string put together around a run with a dot in it
Dotted == doc.kind = "raw" /\ \E k \in 1..Len(doc.lexemes) : doc.lexemes[k] \in DotWords

\* C21: a run of letters, digits, underscores and dots (2.1, a.b, 12.5, v1.10)
\* lexes as one token: a dot in such a run never causes InvalidToken.
C21_DotsInIdentifiers ==
    (Done /\ Dotted) =>
        /\ result.err.kind # "InvalidToken"
        /\ Len(tokens) = Len(doc.lexemes)

\* the positions of parse_commands and parse_command
ParserPositions == {"eat_until", "expect_vcp", "expect_open", "commands", "command",
                    "command_open", "values", "value", "values_close", "commands_close"}

\* C24: the whole string is lexed before the parser starts, so a string with a
\* character no rule matches fails with InvalidToken for the first such
\* character wherever it stands, also after the ')' of the vcp group or after
\* the token at which the parser would have failed.
C24_InvalidTokenBeforeGrammar ==
    LET bad == {i \in 1..Len(s) : s[i] \in Unlexable}
    IN  /\ pc \in ParserPositions => (bad = {} /\ SkipNul(s, pos) >= Len(s))
        /\ (Done /\ bad # {}) =>
                /\ result.err.kind = "InvalidToken"
                /\ \E i \in bad : /\ \A j \in bad : i <= j
                                  /\ result.err.text = <<s[i]>>
C24_Witness ==
    /\ Done
    /\ IsSubst({"bad"}, {"close"})
    /\ doc.hasVcp
    /\ doc.entries # <<>>
    /\ tokens[Len(tokens)] = RightParen
    /\ result = Err(InvalidToken(<<"$">>))

\* a composed string with a second vcp group, vcp(02)
TwoVcpGroups == IsCaps /\ doc.fault.kind = "insert" /\ doc.fault.lex = "vcpgroup"

\* C25: a string with two vcp groups parses to the entries of the first one
\* only: the later group adds nothing, replaces nothing and causes no error.
C25_FirstVcpGroupOnly ==
    (Done /\ TwoVcpGroups) =>
        result = Ok(IF doc.fault.at <= RoleAt(doc, "vcp")
                    THEN <<Command(2, <<>>)>>
                    ELSE Declared(doc))
C25_Witness ==
    /\ Done
    /\ TwoVcpGroups
    /\ doc.fault.at > RoleAt(doc, "vclose")
    /\ Len(SelectSeq(tokens, LAMBDA t : t = Vcp)) = 2
    /\ result = Ok(<<Command(96, <<17, 0>>)>>)

\* the tokens eat and expect are tried with
Probes == {LeftParen, RightParen, Space, Vcp, Code(1)}
\* what the cursor operations do at the cursor's place
CursorOps ==
    LET atEnd == index = Len(tokens)
        n == next(tokens, index)
    IN  /\ atEnd => (~n.ok /\ n.err = EndOfFile /\ n.index = index)
        /\ ~atEnd => (n.ok /\ n.tok = tokens[index + 1] /\ n.index = index + 1)
        /\ \A t \in Probes :
            LET present == ~atEnd /\ tokens[index + 1] = t
                e == eat(tokens, index, t)
                x == expect(tokens, index, t)
            IN  /\ check(tokens, index, t) <=> present
                /\ e.matches <=> present
                /\ e.index = IF present THEN index + 1 ELSE index
                /\ x.ok <=> present
                /\ (~atEnd /\ ~present) =>
                        (x.index = index + 1 /\ x.err.kind = "Expected")
                /\ atEnd => (x.index = index /\ x.err = EndOfFile)
CursorInRange == index \in 0..Len(tokens)
CursorStep ==
    (pc \in ParserPositions /\ pc' \in ParserPositions \cup {"done"}) =>
        /\ index' >= index
        /\ tokens' = tokens

\* C26: the cursor is always between 0 and the number of tokens and never
\* moves back while the parser runs; next at the end returns EndOfFile and
\* leaves the cursor, check does not move it, eat moves it by one exactly when
\* the next token is the one asked for, and an expect that fails on a present
\* token has consumed that token.
C26_CursorInvariants ==
    /\ [](CursorInRange /\ (pc \in ParserPositions => CursorOps))
    /\ [][CursorStep]_vars
C26_Witness ==
    /\ Done
    /\ doc = Raw(<<<<"v", "c", "p">>, <<" ">>, <<"(">> >>)
    /\ index = 2
    /\ result = Err(ExpectedError(Space, LeftParen))

\* every call of parse has returned
Finished == Done /\ (doc.kind = "twice" => earlier # Pending)
\* a turn of the skip loop, of the entry loop and of the value loop moves the
\* cursor on unless it returns an error
LoopAdvances ==
    /\ (pc = "eat_until" /\ pc' = "eat_until") => index' = index + 1
    /\ (pc = "command" /\ pc' # "done") => index' > index
    /\ (pc = "value" /\ pc' # "done") => index' > index
\* the entries and values read so far are no more than the tokens consumed
WorkWithinTokens ==
    pc \in ParserPositions \ {"eat_until", "expect_vcp", "expect_open"} =>
        /\ Len(commands) <= index
        /\ pc \in {"values", "value", "values_close"} =>
                Len(commands) + 1 + Len(cur.values) <= index

\* C22: parse terminates on every input: each turn of the skip loop, the
\* entry loop and the value loop moves the cursor by at least one token or
\* returns an error, what has been read never exceeds the tokens consumed, and
\* parse always reaches its final Ok or Err.
C22_Terminates ==
    /\ <>Finished
    /\ [][LoopAdvances]_vars
    /\ []WorkWithinTokens
    /\ [](Finished => (result.ok \/ result.err.kind \in ErrorKinds))
C22_Witness ==
    /\ Finished
    /\ doc.kind = "twice"
    /\ doc.a = Sample("un880")
    /\ index < Len(tokens)
    /\ Len(result.value) = 46

\* what get returns from a table, for each device id
Lookup(table) == [d \in DeviceIds |-> get(table, d)]
\* what a set that returned Ok does to what get returns
SetKeepsEarliest ==
    (call'.fn = "set" /\ call'.out.ok /\ rows' # rows) =>
        \A d \in DeviceIds :
            get(rows', d) = IF d = call'.arg[1] /\ ~get(rows, d).some
                            THEN Some(call'.arg[2])
                            ELSE get(rows, d)
\* a get, and a set that returned Err, change nothing get returns
OthersKeepAll ==
    (call'.fn = "get" \/ ~call'.out.ok) => Lookup(rows') = Lookup(rows)

\* C28: set never replaces or deletes a row: every row stays where it is, a set
\* of a device id that has no row makes get return the string set, and any
\* other set changes what get returns for no device id; get returns None
\* exactly for the device ids never set.
C28_EarliestSetWins ==
    /\ [][/\ SetKeepsEarliest
          /\ OthersKeepAll
          /\ SubSeq(rows', 1, Len(rows)) = rows]_vars
    /\ [](\A d \in DeviceIds :
              get(rows, d).some <=> \E i \in 1..Len(rows) : rows[i].device_id = d)
    /\ [](call.fn = "get" /\ call.out.ok => call.out.value = get(rows, call.arg[1]))
C28_Witness ==
    /\ call.fn = "set"
    /\ call.out.ok
    /\ call.arg = <<"MONITOR\\A", "(vcp(60(10 12)))">>
    /\ Len(rows) = 3
    /\ rows[1] = CapabilitiesCacheEntry("MONITOR\\A", "(vcp(60(0F 11)))")
    /\ rows[2].device_id = "MONITOR\\B"
    /\ get(rows, "MONITOR\\A") = Some("(vcp(60(0F 11)))")

\* a lookup of Monitor::new fails on this display monitor before any fetch
FailsEarly(hmonitor) ==
    \/ hmonitor.physical # "one"
    \/ ~hmonitor.device_name.some
    \/ ~hmonitor.device_id.some
    \/ ~hmonitor.friendly_name.some
\* the callback was called in this step
CallbackStep == pc = "enumerate" /\ hm' # hm
\* the handles of a sequence of monitors
HandlesOf(ms) == [i \in 1..Len(ms) |-> ms[i].handle]

C27_CacheFirst ==
    [][(CallbackStep /\ call'.out.fetch.called) =>
         LET f == call'.out.fetch
             c == call'.arg[2]
             q == call'.arg[3]
             h == hmonitors[call'.arg[1]]
             d == h.device_id.v
             hit == c.open /\ c.get /\ get(rows, d).some
         IN IF hit
            THEN /\ ~f.queried
                 /\ f.ret.ok
                 /\ f.ret.value = get(rows, d).v
                 /\ rows' = rows
            ELSE /\ f.queried
                 /\ f.ret.ok <=> q = "ok"
                 /\ f.ret.ok => f.ret.value = h.capabilities_string
                 /\ rows' = IF q = "ok" /\ c.open /\ c.set
                            THEN Append(rows, CapabilitiesCacheEntry(d, h.capabilities_string))
                            ELSE rows
                 /\ (q = "ok" /\ c.open /\ c.set) => get(rows', d).some]_vars
C27_Witness ==
    /\ run = 2
    /\ call.fn = "new"
    /\ call.out.fetch.called
    /\ ~call.out.fetch.queried
    /\ call.out.fetch.ret.ok
    /\ call.out.fetch.ret.value = "(vcp(60(0F 11"
    /\ ~call.out.ret.ok
    /\ monitors = <<>>

\* C29: every handle obtained is destroyed exactly once: no handle is destroyed
\* twice, and none is open once the monitors get_monitors made are dropped.
C29_HandlesReleasedOnce ==
    /\ \A i, j \in 1..Len(destroyed) : destroyed[i] = destroyed[j] => i = j
    /\ pc = "dropped" => open = {}

\* C30: Monitor::input returns and does not abort, Ok with the Input when the
\* reply's low byte maps to one and an error when it maps to none.
C30_InputReturnsError ==
    /\ pc # "panic"
    /\ (call.fn = "input" /\ call.arg[2]) =>
           /\ ~call.out.panic
           /\ call.out.ret.ok <=> IsMappedByte(call.arg[3] % 256)

============================================================================
